---------------------------- MODULE Spec2Model ----------------------------
(***************************************************************************)
(* The block editor of src/components/BlockEditor.tsx: the ordered list of *)
(* blocks, the drag-and-drop bookkeeping and the edit-mode flag, together  *)
(* with the event wiring of src/components/BlockItem.tsx.                  *)
(*                                                                         *)
(* React runs one event handler at a time and re-renders before the next   *)
(* event, so every handler is one atomic action that reads the committed   *)
(* state.  Array indices are 0-based as in the source; TLA+ sequences are  *)
(* 1-based, so block index i is blocks[i + 1].                             *)
(***************************************************************************)
EXTENDS Integers, Sequences, FiniteSets, TLC

VARIABLES
    blocks,            \* useState<Block[]>            BlockEditor.tsx:7
    isDragging,        \* useState(false)              BlockEditor.tsx:15
    dragOverIndex,     \* useState<number | null>      BlockEditor.tsx:16
    draggedItemIndex,  \* useRef<number | null>        BlockEditor.tsx:17
    draggedBlockId,    \* sessionStorage 'draggedBlockId'
    uuidCount,         \* how many ids uuidv4() has handed out
    steps              \* how many handlers have run

vars == <<blocks, isDragging, dragOverIndex, draggedItemIndex, draggedBlockId,
          uuidCount, steps>>

\* The longest run of handler calls that is explored.
MaxSteps == 4

\* null of `number | null` and of sessionStorage.getItem on a missing key.
null == -1

\* Block['type']
BlockTypes == {"text", "image", "heading"}

\* The strings a user types into a block (onChange's e.target.value).
Contents == {"Hello", ""}

\* uuidv4(): an id that was never handed out before.
uuidv4(n) == n + 1

\* String.prototype.toUpperCase on the three block types.
toUpperCase(type) ==
    CASE type = "text" -> "TEXT"
      [] type = "image" -> "IMAGE"
      [] type = "heading" -> "HEADING"

\* The six blocks useState is initialised with; isEditing is left out, as
\* in the source, so it reads as undefined.
SeedBlocks ==
    << [id |-> 1, type |-> "heading", content |-> "Notion-like Document (Native D&D)"],
       [id |-> 2, type |-> "text", content |-> "This is a paragraph. You can reorder these blocks by dragging them up or down. Double-click text or headings to edit them!"],
       [id |-> 3, type |-> "image", content |-> "https://placehold.co/200x150/d3d3d3/555555?text=Your+Image"],
       [id |-> 4, type |-> "text", content |-> "Add new blocks below using the buttons. This demonstrates a simple block-based editor."],
       [id |-> 5, type |-> "heading", content |-> "Another Section for Testing"],
       [id |-> 6, type |-> "text", content |-> "Feel free to play around!"] >>

\* block.isEditing read as a condition: the optional field is truthy only
\* when it is present and true.
IsEditing(block) == "isEditing" \in DOMAIN block /\ block.isEditing

\* { ...block, isEditing: value }: the fields of a Block (types.ts) copied,
\* isEditing set whether or not the block had it.
WithIsEditing(block, value) ==
    [id |-> block.id, type |-> block.type, content |-> block.content,
     isEditing |-> value]

\* { ...block, content }
WithContent(block, content) == [block EXCEPT !.content = content]

Min(a, b) == IF a < b THEN a ELSE b

\* result.splice(startIndex, 1): the list without the element at startIndex.
SpliceOut(list, startIndex) ==
    SubSeq(list, 1, startIndex) \o SubSeq(list, startIndex + 2, Len(list))

\* result.splice(endIndex, 0, removed): insert at endIndex, clamped to the
\* length as splice does.
SpliceIn(list, endIndex, removed) ==
    LET at == Min(endIndex, Len(list))
    IN  SubSeq(list, 1, at) \o <<removed>> \o SubSeq(list, at + 1, Len(list))

\* reorder with the second splice forgotten: the dragged block is lost.
reorderDropsRemoved(list, startIndex, endIndex) == SpliceOut(list, startIndex)

\* reorder as an exchange of the two positions.
reorderSwaps(list, startIndex, endIndex) ==
    [k \in DOMAIN list |->
        IF k = startIndex + 1 THEN list[endIndex + 1]
        ELSE IF k = endIndex + 1 THEN list[startIndex + 1]
        ELSE list[k]]

\* reorder that lowers the insertion index by one when moving down the
\* list, as if the removal still had to be accounted for.
reorderAdjustsIndex(list, startIndex, endIndex) ==
    SpliceIn(SpliceOut(list, startIndex),
             IF endIndex > startIndex THEN endIndex - 1 ELSE endIndex,
             list[startIndex + 1])

\* reorder with the first splice forgotten: the dragged block is inserted
\* at its new place and stays at its old one.
reorderCopies(list, startIndex, endIndex) ==
    SpliceIn(list, endIndex, list[startIndex + 1])

reorder(list, startIndex, endIndex) ==
    SpliceIn(SpliceOut(list, startIndex), endIndex, list[startIndex + 1])

\* newBlock with isEditing: true whatever the type.
newBlockAlwaysEditing(type, id) ==
    [id |-> id,
     type |-> type,
     content |-> IF type = "image"
                 THEN "https://placehold.co/200x150/d3d3d3/555555?text=" \o toUpperCase(type)
                 ELSE "New " \o type \o " block",
     isEditing |-> TRUE]

\* The block addBlock builds.
newBlock(type, id) ==
    [id |-> id,
     type |-> type,
     content |-> IF type = "image"
                 THEN "https://placehold.co/200x150/d3d3d3/555555?text=" \o toUpperCase(type)
                 ELSE "New " \o type \o " block",
     isEditing |-> type # "image"]

\* toggleEditMode's map that leaves the other blocks as they are.
toggledBlocksKeepsOthers(prevBlocks, id) ==
    [k \in DOMAIN prevBlocks |->
        IF prevBlocks[k].id = id
        THEN WithIsEditing(prevBlocks[k], ~IsEditing(prevBlocks[k]))
        ELSE prevBlocks[k]]

\* toggleEditMode's map that sets the flag instead of flipping it.
toggledBlocksSetsOnly(prevBlocks, id) ==
    [k \in DOMAIN prevBlocks |->
        IF prevBlocks[k].id = id
        THEN WithIsEditing(prevBlocks[k], TRUE)
        ELSE WithIsEditing(prevBlocks[k], FALSE)]

\* prevBlocks.map(...) of toggleEditMode
toggledBlocks(prevBlocks, id) ==
    [k \in DOMAIN prevBlocks |->
        IF prevBlocks[k].id = id
        THEN WithIsEditing(prevBlocks[k], ~IsEditing(prevBlocks[k]))
        ELSE WithIsEditing(prevBlocks[k], FALSE)]

\* updateBlockContent's map that also takes the block out of edit mode.
updatedBlocksClearsEditing(prevBlocks, id, content) ==
    [k \in DOMAIN prevBlocks |->
        IF prevBlocks[k].id = id
        THEN WithIsEditing(WithContent(prevBlocks[k], content), FALSE)
        ELSE prevBlocks[k]]

\* updateBlockContent's map that adds the new text to the old content.
updatedBlocksAppends(prevBlocks, id, content) ==
    [k \in DOMAIN prevBlocks |->
        IF prevBlocks[k].id = id
        THEN WithContent(prevBlocks[k], prevBlocks[k].content \o content)
        ELSE prevBlocks[k]]

\* prevBlocks.map(...) of updateBlockContent
updatedBlocks(prevBlocks, id, content) ==
    [k \in DOMAIN prevBlocks |->
        IF prevBlocks[k].id = id
        THEN WithContent(prevBlocks[k], content)
        ELSE prevBlocks[k]]

Indices == 0 .. Len(blocks) - 1

\* The ids a caller can pass: those of the document and one (0) that no
\* block carries.
IdInputs == {blocks[k].id : k \in DOMAIN blocks} \cup {0}

Init ==
    /\ blocks = SeedBlocks
    /\ isDragging = FALSE
    /\ dragOverIndex = null
    /\ draggedItemIndex = null
    /\ draggedBlockId = null
    /\ uuidCount = Len(SeedBlocks)
    /\ steps = 0

\* Every handler call is one step of the bounded run.
Step == steps < MaxSteps /\ steps' = steps + 1

\* handleDragStart that records the 1-based position of the block.
handleDragStartOneBased(index) ==
    /\ Step
    /\ isDragging' = TRUE
    /\ draggedItemIndex' = index + 1
    /\ draggedBlockId' = blocks[index + 1].id
    /\ UNCHANGED <<blocks, dragOverIndex, uuidCount>>

handleDragStart(index) ==
    /\ Step
    /\ isDragging' = TRUE
    /\ draggedItemIndex' = index
    /\ draggedBlockId' = blocks[index + 1].id
    /\ UNCHANGED <<blocks, dragOverIndex, uuidCount>>

\* handleDragOver without the comparison with the dragged index.
handleDragOverAnyIndex(index) ==
    /\ Step
    /\ dragOverIndex' = IF draggedItemIndex # null THEN index ELSE dragOverIndex
    /\ UNCHANGED <<blocks, isDragging, draggedItemIndex, draggedBlockId, uuidCount>>

handleDragOver(index) ==
    /\ Step
    /\ dragOverIndex' = IF draggedItemIndex # null /\ draggedItemIndex # index
                        THEN index
                        ELSE dragOverIndex
    /\ UNCHANGED <<blocks, isDragging, draggedItemIndex, draggedBlockId, uuidCount>>

handleDragLeave ==
    /\ Step
    /\ dragOverIndex' = null
    /\ UNCHANGED <<blocks, isDragging, draggedItemIndex, draggedBlockId, uuidCount>>

\* The document handleDrop commits.
droppedBlocks(list, startIndex, dropIndex) ==
    IF startIndex = null \/ startIndex = dropIndex
    THEN list
    ELSE reorder(list, startIndex, dropIndex)

\* handleDrop without setDragOverIndex(null).
handleDropKeepsTarget(dropIndex) ==
    /\ Step
    /\ UNCHANGED dragOverIndex
    /\ IF draggedItemIndex = null
       THEN UNCHANGED <<blocks, isDragging, draggedItemIndex, draggedBlockId>>
       ELSE /\ blocks' = droppedBlocks(blocks, draggedItemIndex, dropIndex)
            /\ isDragging' = FALSE
            /\ draggedItemIndex' = null
            /\ draggedBlockId' = null
    /\ UNCHANGED uuidCount

\* handleDrop whose startIndex === dropIndex branch only returns.
handleDropSameIndexReturns(dropIndex) ==
    /\ Step
    /\ dragOverIndex' = null
    /\ IF draggedItemIndex = null \/ draggedItemIndex = dropIndex
       THEN UNCHANGED <<blocks, isDragging, draggedItemIndex, draggedBlockId>>
       ELSE /\ blocks' = droppedBlocks(blocks, draggedItemIndex, dropIndex)
            /\ isDragging' = FALSE
            /\ draggedItemIndex' = null
            /\ draggedBlockId' = null
    /\ UNCHANGED uuidCount

handleDrop(dropIndex) ==
    /\ Step
    /\ dragOverIndex' = null
    /\ IF draggedItemIndex = null
       THEN UNCHANGED <<blocks, isDragging, draggedItemIndex, draggedBlockId>>
       ELSE /\ blocks' = droppedBlocks(blocks, draggedItemIndex, dropIndex)
            /\ isDragging' = FALSE
            /\ draggedItemIndex' = null
            /\ draggedBlockId' = null
    /\ UNCHANGED uuidCount

handleDragEnd ==
    /\ Step
    /\ isDragging' = FALSE
    /\ draggedItemIndex' = null
    /\ draggedBlockId' = null
    /\ UNCHANGED <<blocks, dragOverIndex, uuidCount>>

\* addBlock that puts the new block first: [newBlock, ...prevBlocks].
addBlockPrepends(type) ==
    /\ Step
    /\ UNCHANGED <<isDragging, dragOverIndex, draggedItemIndex, draggedBlockId>>
    /\ uuidCount' = uuidCount + 1
    /\ blocks' = <<newBlock(type, uuidv4(uuidCount))>> \o blocks

addBlock(type) ==
    /\ Step
    /\ UNCHANGED <<isDragging, dragOverIndex, draggedItemIndex, draggedBlockId>>
    /\ uuidCount' = uuidCount + 1
    /\ blocks' = Append(blocks, newBlock(type, uuidv4(uuidCount)))

toggleEditMode(id) ==
    /\ Step
    /\ UNCHANGED <<isDragging, dragOverIndex, draggedItemIndex, draggedBlockId, uuidCount>>
    /\ blocks' = toggledBlocks(blocks, id)

updateBlockContent(id, content) ==
    /\ Step
    /\ UNCHANGED <<isDragging, dragOverIndex, draggedItemIndex, draggedBlockId, uuidCount>>
    /\ blocks' = updatedBlocks(blocks, id, content)

\* What reading an array at an index it does not have gives.
undefined == "undefined"

\* blocks[index]
elementAt(list, index) ==
    IF index + 1 \in DOMAIN list THEN list[index + 1] ELSE undefined

\* The handlers of the element that holds the list of blocks.  A drag event
\* on a block reaches them too, by bubbling, after the block's own handler;
\* they act only when the document they were rendered with is empty, which
\* a document that has a block to bubble from is not, so they are modelled
\* as events of their own: a drag event on the area around the blocks.
containerOnDragOver ==
    /\ Step
    /\ dragOverIndex' = IF Len(blocks) = 0 THEN 0 ELSE dragOverIndex
    /\ UNCHANGED <<blocks, isDragging, draggedItemIndex, draggedBlockId, uuidCount>>

containerOnDrop ==
    /\ Step
    /\ IF Len(blocks) = 0 /\ draggedItemIndex # null
       THEN /\ dragOverIndex' = null
            /\ blocks' = <<elementAt(blocks, draggedItemIndex)>>
            /\ isDragging' = FALSE
            /\ draggedItemIndex' = null
            /\ draggedBlockId' = null
       ELSE UNCHANGED <<blocks, isDragging, dragOverIndex, draggedItemIndex,
                        draggedBlockId>>
    /\ UNCHANGED uuidCount

containerOnDragLeave ==
    /\ Step
    /\ dragOverIndex' = IF Len(blocks) = 0 THEN null ELSE dragOverIndex
    /\ UNCHANGED <<blocks, isDragging, draggedItemIndex, draggedBlockId, uuidCount>>

\* The operations of the editor, called with any argument a caller can
\* form: any block type, any index of the rendered list, any id.
Next ==
    \/ \E index \in Indices : handleDragStart(index)
    \/ \E index \in Indices : handleDragOver(index)
    \/ \E index \in Indices : handleDrop(index)
    \/ handleDragLeave
    \/ handleDragEnd
    \/ \E type \in BlockTypes : addBlock(type)
    \/ \E id \in IdInputs : toggleEditMode(id)
    \/ \E id \in IdInputs, content \in Contents : updateBlockContent(id, content)
    \/ containerOnDragOver
    \/ containerOnDrop
    \/ containerOnDragLeave

Spec == Init /\ [][Next]_vars

(***************************************************************************)
(* The events of BlockItem.tsx and of the buttons, as the rendered page    *)
(* wires them to the operations above.                                     *)
(***************************************************************************)

\* renderBlockContent puts an <input> or <textarea> on the page only for a
\* heading or text block in edit mode.
inputRendered(block) == IsEditing(block) /\ block.type \in {"heading", "text"}

\* A handler that returns without calling anything.
ignored ==
    /\ Step
    /\ UNCHANGED <<blocks, isDragging, dragOverIndex, draggedItemIndex,
                   draggedBlockId, uuidCount>>

\* onDoubleClick without the check of the block's type.
onDoubleClickAnyType(index) == toggleEditMode(blocks[index + 1].id)

onDoubleClick(index) ==
    LET block == blocks[index + 1]
    IN  IF block.type = "text" \/ block.type = "heading"
        THEN toggleEditMode(block.id)
        ELSE ignored

\* The keys handleKeyDown tells apart.
Keys == {"Enter", "Escape", "a"}

handleKeyDown(index, key, shiftKey) ==
    LET block == blocks[index + 1]
    IN  /\ inputRendered(block)
        /\ IF key = "Enter" /\ ~(shiftKey /\ block.type = "text")
           THEN toggleEditMode(block.id)
           ELSE IF key = "Escape"
                THEN toggleEditMode(block.id)
                ELSE ignored

onBlur(index) ==
    LET block == blocks[index + 1]
    IN  inputRendered(block) /\ toggleEditMode(block.id)

onChange(index, content) ==
    LET block == blocks[index + 1]
    IN  inputRendered(block) /\ updateBlockContent(block.id, content)

\* onDragStart of a block that is draggable whatever its editing flag.
onDragStartAlways(index) == handleDragStart(index)

\* draggable={!block.isEditing}
onDragStart(index) ==
    /\ ~IsEditing(blocks[index + 1])
    /\ handleDragStart(index)

PresenterEvent ==
    \/ \E type \in BlockTypes : addBlock(type)
    \/ \E index \in Indices : onDoubleClick(index)
    \/ \E index \in Indices, key \in Keys, shiftKey \in BOOLEAN :
          handleKeyDown(index, key, shiftKey)
    \/ \E index \in Indices : onBlur(index)
    \/ \E index \in Indices, content \in Contents : onChange(index, content)
    \/ \E index \in Indices : onDragStart(index)
    \/ \E index \in Indices : handleDragOver(index)
    \/ handleDragLeave
    \/ \E index \in Indices : handleDrop(index)
    \/ handleDragEnd
    \/ containerOnDragOver
    \/ containerOnDrop
    \/ containerOnDragLeave

(***************************************************************************)
(* What the claims speak of.                                               *)
(***************************************************************************)

EditingAt(list) == {k \in DOMAIN list : IsEditing(list[k])}

AtMostOneEditing(list) == Cardinality(EditingAt(list)) <= 1

IdsOf(list) == {list[k].id : k \in DOMAIN list}

IdSeq(list) == [k \in DOMAIN list |-> list[k].id]

IdCount(list, id) == Cardinality({k \in DOMAIN list : list[k].id = id})

SameIdBag(a, b) ==
    \A id \in IdsOf(a) \cup IdsOf(b) : IdCount(a, id) = IdCount(b, id)

\* The list with the element at 0-based position index left out.
Without(list, index) ==
    [k \in 1 .. Len(list) - 1 |-> IF k <= index THEN list[k] ELSE list[k + 1]]

\* The same blocks at the same places, up to the editing flag.
SameButEditing(a, b) ==
    /\ Len(a) = Len(b)
    /\ \A k \in DOMAIN a :
          /\ a[k].id = b[k].id
          /\ a[k].type = b[k].type
          /\ a[k].content = b[k].content

NoImageEditing(list) ==
    \A k \in DOMAIN list : list[k].type = "image" => ~IsEditing(list[k])

\* A drop that commits a move: a drag is in progress from index i and the
\* drop lands on another index j.
IsMove(i, j) == draggedItemIndex = i /\ i # j /\ handleDrop(j)

(***************************************************************************)
(* C1.  In every reachable state at most one block has editing = true.     *)
(* addBlock appends a text or heading block that is already editing and    *)
(* leaves the flags of the others alone, so two calls break it.            *)
(***************************************************************************)
C1_AtMostOneEditing == AtMostOneEditing(blocks)

(***************************************************************************)
(* C2.  Starting with no block editing, a run of toggleEditMode calls,     *)
(* with ids present or absent, never leaves more than one block editing:   *)
(* no block is editing at the start, and a step that takes the document    *)
(* from at most one editing block to more than one is never a              *)
(* toggleEditMode call.                                                    *)
(***************************************************************************)
C2_ToggleKeepsAtMostOne ==
    [][(AtMostOneEditing(blocks) /\ ~AtMostOneEditing(blocks'))
          => ~\E id \in IdInputs : toggleEditMode(id)]_vars

\* A toggle has given every block the flag, the second block is the one
\* editing and the first is not.
C2_Witness ==
    /\ Len(blocks) = Len(SeedBlocks)
    /\ \A k \in DOMAIN blocks : "isEditing" \in DOMAIN blocks[k]
    /\ EditingAt(blocks) = {2}

(***************************************************************************)
(* C3.  A drop on index j of a drag begun at index i # j keeps the length  *)
(* of the document and the multiset of its block ids.                      *)
(***************************************************************************)
C3_MoveKeepsIds ==
    [][\A i, j \in Indices :
          IsMove(i, j) => /\ Len(blocks') = Len(blocks)
                          /\ SameIdBag(blocks, blocks')]_vars

\* Ids are handed out in document order and new blocks go to the end, so
\* an id sequence out of order is a document some move has reordered.
C3_Witness ==
    /\ \E k \in DOMAIN blocks : blocks[k].id # k
    /\ IdsOf(blocks) = 1 .. Len(blocks)
    /\ draggedItemIndex = null

(***************************************************************************)
(* C4.  After a drop on index j of a drag begun at index i # j the block   *)
(* that was at i is at j and the other blocks keep their order (a move of  *)
(* one element, not a swap); [A, B, C] with the first block dropped on the *)
(* third gives [B, C, A].                                                  *)
(***************************************************************************)
C4_MovePlacesAtTarget ==
    [][\A i, j \in Indices :
          IsMove(i, j) =>
              /\ Len(blocks') = Len(blocks)
              /\ blocks'[j + 1] = blocks[i + 1]
              /\ Without(blocks', j) = Without(blocks, i)
              /\ LET ABC == SubSeq(SeedBlocks, 1, 3)
                 IN  reorder(ABC, 0, 2) = <<ABC[2], ABC[3], ABC[1]>>]_vars

\* beginDrag(0); dragOver(2); drop(2) on the seed document.
C4_Witness ==
    /\ IdSeq(blocks) = <<2, 3, 1, 4, 5, 6>>
    /\ steps = 3
    /\ draggedItemIndex = null
    /\ dragOverIndex = null

(***************************************************************************)
(* C5.  A move from i to j followed by the inverse move, a drag begun at j *)
(* and dropped on i, gives back the original order: the document that      *)
(* handleDrop commits for the inverse move is the one before the move.     *)
(***************************************************************************)
C5_InverseMoveRestores ==
    [][\A i, j \in Indices :
          IsMove(i, j) => droppedBlocks(blocks', j, i) = blocks]_vars

\* beginDrag(0); drop(2); beginDrag(2) on the seed document: the first
\* block was moved to the third place, the drag of the inverse move has
\* begun there, and dropping it on the first place restores the seed.
C5_Witness ==
    /\ steps = 3
    /\ IdSeq(blocks) = <<2, 3, 1, 4, 5, 6>>
    /\ draggedItemIndex = 2
    /\ draggedBlockId = 1
    /\ droppedBlocks(blocks, draggedItemIndex, 0) = SeedBlocks

(***************************************************************************)
(* C6.  endDrag, called in any state, leaves draggedIndex and              *)
(* dragOverIndex at none and the dragging flag false, and leaves the       *)
(* document as it was.  handleDragEnd never calls setDragOverIndex, so a   *)
(* drop target set by dragOver survives it.                                *)
(***************************************************************************)
C6_EndDragClearsAll ==
    [][handleDragEnd => /\ draggedItemIndex' = null
                        /\ dragOverIndex' = null
                        /\ isDragging' = FALSE
                        /\ blocks' = blocks]_vars

(***************************************************************************)
(* C7.  toggleEditMode with an id that no block carries changes nothing:   *)
(* every block keeps its place, id, type, content and editing flag.  The   *)
(* map of toggleEditMode sends every block that does not match to          *)
(* isEditing: false, so the block being edited leaves edit mode.           *)
(***************************************************************************)
C7_ToggleAbsentIsNoOp ==
    [][\A id \in IdInputs \ IdsOf(blocks) :
          toggleEditMode(id) =>
              /\ SameButEditing(blocks, blocks')
              /\ EditingAt(blocks') = EditingAt(blocks)]_vars

(***************************************************************************)
(* C8, as claimed.  No image block has editing = true in any reachable     *)
(* state, toggleEditMode being called with any block id.                   *)
(***************************************************************************)
C8_NoImageEditing == NoImageEditing(blocks)

(***************************************************************************)
(* C8, amended.  No image block is editing at the start, and a step that   *)
(* makes an image block editing when none was is never an event the page   *)
(* can deliver (the add buttons, a double-click, a key or a blur or a      *)
(* change in the input of the block being edited, the drag events).        *)
(***************************************************************************)
C8_PresenterKeepsImagesOutOfEditMode ==
    [][(NoImageEditing(blocks) /\ ~NoImageEditing(blocks')) => ~PresenterEvent]_vars

\* An image block was added and a text block double-clicked into edit
\* mode, which gave both image blocks the flag, set to false.
C8_Witness ==
    /\ Len(blocks) = Len(SeedBlocks) + 1
    /\ blocks[Len(blocks)].type = "image"
    /\ \A k \in DOMAIN blocks : "isEditing" \in DOMAIN blocks[k]
    /\ \E k \in EditingAt(blocks) : blocks[k].type = "text"
    /\ NoImageEditing(blocks)

(***************************************************************************)
(* C9.  toggleEditMode with the id of a block of the document: a block     *)
(* that was not editing is editing afterwards and no other block is; a     *)
(* block that was editing is not editing afterwards; place, id, type and   *)
(* content of every block stay.  On the first two blocks, neither editing, *)
(* toggling the first and then the second leaves the second editing and    *)
(* the first not.                                                          *)
(***************************************************************************)
C9_ToggleOfPresentId ==
    [][\A k \in DOMAIN blocks :
          toggleEditMode(blocks[k].id) =>
              /\ SameButEditing(blocks, blocks')
              /\ ~IsEditing(blocks[k]) => EditingAt(blocks') = {k}
              /\ IsEditing(blocks[k]) => k \notin EditingAt(blocks')
              /\ LET AB == SubSeq(SeedBlocks, 1, 2)
                     after == toggledBlocks(toggledBlocks(AB, AB[1].id), AB[2].id)
                 IN  IsEditing(after[2]) /\ ~IsEditing(after[1])]_vars

\* toggleEditMode(A.id); toggleEditMode(B.id); toggleEditMode(B.id) on the
\* seed document: A was cleared by the second call and B by the third.
C9_Witness ==
    /\ steps = 3
    /\ SameButEditing(blocks, SeedBlocks)
    /\ \A k \in DOMAIN blocks : "isEditing" \in DOMAIN blocks[k]
    /\ EditingAt(blocks) = {}
    /\ draggedItemIndex = null

(***************************************************************************)
(* C10.  addBlock(type) appends exactly one block at the end: its id is    *)
(* carried by no block that was there, its type is the one asked for, its  *)
(* content is "New text block" or "New heading block" for text and         *)
(* heading, it is editing for text and heading and not for image; the      *)
(* blocks that were there keep their places.                               *)
(***************************************************************************)
C10_AddBlockAppends ==
    [][\A type \in BlockTypes :
          addBlock(type) =>
              LET n == Len(blocks)
                  new == blocks'[n + 1]
              IN  /\ Len(blocks') = n + 1
                  /\ SubSeq(blocks', 1, n) = blocks
                  /\ new.id \notin IdsOf(blocks)
                  /\ new.type = type
                  /\ type = "text" => new.content = "New text block"
                  /\ type = "heading" => new.content = "New heading block"
                  /\ IsEditing(new) <=> type \in {"text", "heading"}]_vars

\* An image block and then a text block were added to the seed document.
C10_Witness ==
    /\ Len(blocks) = Len(SeedBlocks) + 2
    /\ SubSeq(blocks, 1, Len(SeedBlocks)) = SeedBlocks
    /\ blocks[Len(blocks) - 1].type = "image"
    /\ ~IsEditing(blocks[Len(blocks) - 1])
    /\ blocks[Len(blocks)].type = "text"
    /\ blocks[Len(blocks)].content = "New text block"
    /\ IsEditing(blocks[Len(blocks)])

(***************************************************************************)
(* C11.  updateBlockContent(id, c) gives the block with that id the        *)
(* content c and changes nothing else: every block keeps its place, id and *)
(* type and its editing flag (present or not, true or false), every other  *)
(* block keeps its content, the drag state stays; with an id that no block *)
(* carries the document stays as it was.                                   *)
(***************************************************************************)
C11_UpdateChangesOnlyContent ==
    [][\A id \in IdInputs, c \in Contents :
          updateBlockContent(id, c) =>
              /\ Len(blocks') = Len(blocks)
              /\ \A k \in DOMAIN blocks :
                    /\ DOMAIN blocks'[k] = DOMAIN blocks[k]
                    /\ \A f \in DOMAIN blocks[k] \ {"content"} :
                          blocks'[k][f] = blocks[k][f]
                    /\ blocks'[k].content =
                          IF blocks[k].id = id THEN c ELSE blocks[k].content
              /\ id \notin IdsOf(blocks) => blocks' = blocks
              /\ UNCHANGED <<isDragging, dragOverIndex, draggedItemIndex,
                             draggedBlockId>>]_vars

\* toggleEditMode(B.id); updateBlockContent(B.id, "Hello") on the seed
\* document: B has the new content and is still editing, the others have
\* their seed content.
C11_Witness ==
    /\ steps = 2
    /\ blocks[2].content = "Hello"
    /\ EditingAt(blocks) = {2}
    /\ \A k \in DOMAIN blocks \ {2} : blocks[k].content = SeedBlocks[k].content
    /\ IdSeq(blocks) = <<1, 2, 3, 4, 5, 6>>

(***************************************************************************)
(* C12.  A drop with a drag in progress leaves draggedIndex and            *)
(* dragOverIndex at none and the dragging flag false, on the dragged index *)
(* as on any other.                                                        *)
(***************************************************************************)
C12_DropClearsDragState ==
    [][\A j \in Indices :
          (draggedItemIndex # null /\ handleDrop(j)) =>
              /\ draggedItemIndex' = null
              /\ dragOverIndex' = null
              /\ isDragging' = FALSE]_vars

\* beginDrag(0); dragOver(1); drop(1) on the seed document: the first two
\* blocks changed places and nothing of the drag is left.
C12_Witness ==
    /\ steps = 3
    /\ IdSeq(blocks) = <<2, 1, 3, 4, 5, 6>>
    /\ draggedItemIndex = null
    /\ dragOverIndex = null
    /\ draggedBlockId = null
    /\ ~isDragging

(***************************************************************************)
(* C13.  dragOver(index) never changes the document nor draggedIndex; with *)
(* a drag in progress it sets dragOverIndex to index when index is not the *)
(* dragged index and leaves dragOverIndex as it was when it is.            *)
(***************************************************************************)
C13_DragOverSetsTargetOnly ==
    [][\A index \in Indices :
          handleDragOver(index) =>
              /\ blocks' = blocks
              /\ draggedItemIndex' = draggedItemIndex
              /\ (draggedItemIndex # null /\ index # draggedItemIndex)
                    => dragOverIndex' = index
              /\ (draggedItemIndex # null /\ index = draggedItemIndex)
                    => dragOverIndex' = dragOverIndex]_vars

\* beginDrag(0); dragOver(2); dragOver(0) on the seed document: the third
\* block is still the drop target after the pointer came back over the
\* dragged block.
C13_Witness ==
    /\ steps = 3
    /\ draggedItemIndex = 0
    /\ dragOverIndex = 2
    /\ isDragging
    /\ blocks = SeedBlocks

(***************************************************************************)
(* C14.  A drop or a dragOver reported while no drag is in progress        *)
(* changes nothing: not the document, not draggedIndex, not dragOverIndex, *)
(* not the dragging flag.  handleDrop calls setDragOverIndex(null) before  *)
(* it looks at draggedItemIndex, so the drop target that handleDragEnd     *)
(* left behind is cleared by such a drop.                                  *)
(***************************************************************************)
C14_NoDragNoEffect ==
    [][\A index \in Indices :
          (draggedItemIndex = null /\ (handleDrop(index) \/ handleDragOver(index)))
              => UNCHANGED <<blocks, draggedItemIndex, dragOverIndex, isDragging>>]_vars

(***************************************************************************)
(* C15.  In every reachable state draggedIndex is none or an index of the  *)
(* current document, also when blocks are added or edited during a drag.   *)
(***************************************************************************)
C15_DraggedIndexValid ==
    draggedItemIndex = null \/ draggedItemIndex \in 0 .. Len(blocks) - 1

\* beginDrag(5); addBlock('text'); updateBlockContent(new id, "Hello"): the
\* drag of the last seed block is still in progress in a longer document.
C15_Witness ==
    /\ steps = 3
    /\ draggedItemIndex = Len(SeedBlocks) - 1
    /\ Len(blocks) = Len(SeedBlocks) + 1
    /\ blocks[Len(blocks)].content = "Hello"

(***************************************************************************)
(* C16.  With a drag in progress and the document empty, a drop on the     *)
(* area of the document gives a document of exactly one element, the       *)
(* dragged block, and clears the drag state.                               *)
(***************************************************************************)
C16_EmptyDropPlacesDraggedBlock ==
    [][(Len(blocks) = 0 /\ draggedItemIndex # null /\ containerOnDrop) =>
          /\ Len(blocks') = 1
          /\ blocks'[1] # undefined
          /\ blocks'[1].id = draggedBlockId
          /\ draggedItemIndex' = null
          /\ dragOverIndex' = null
          /\ isDragging' = FALSE]_vars

\* C16's case: an empty document with a drag in progress.  No reachable
\* state is one: a drag begins on a block of the document and no handler
\* takes a block out of it.
C16_EmptyDropCase == Len(blocks) = 0 /\ draggedItemIndex # null

(***************************************************************************)
(* C17.  In every reachable state no two blocks share an id, and a drop    *)
(* that reorders only permutes the places: every block of the document is  *)
(* in it afterwards with the same id, type, content and editing flag, and  *)
(* nothing else is.                                                        *)
(***************************************************************************)
\* As many ids as blocks.
UniqueIds(list) == Cardinality(IdsOf(list)) = Len(list)

C17_IdsUniqueAndStable ==
    [][/\ UniqueIds(blocks)
       /\ UniqueIds(blocks')
       /\ \A i, j \in Indices :
             IsMove(i, j) =>
                 /\ Len(blocks') = Len(blocks)
                 /\ \A k \in DOMAIN blocks : \E m \in DOMAIN blocks' :
                       blocks'[m] = blocks[k]]_vars

\* addBlock('text'); beginDrag(6); drop(0) on the seed document: the new
\* block, still editing and with its content, is now the first.
C17_Witness ==
    /\ steps = 3
    /\ IdSeq(blocks) = <<7, 1, 2, 3, 4, 5, 6>>
    /\ blocks[1] = newBlock("text", 7)
    /\ SubSeq(blocks, 2, 7) = SeedBlocks

C19_ToggleTwiceRestoresFlag ==
    [][\A k \in DOMAIN blocks :
          toggleEditMode(blocks[k].id) =>
              (IsEditing(toggledBlocks(blocks', blocks[k].id)[k])
                  <=> IsEditing(blocks[k]))]_vars

\* toggleEditMode(D.id) on the seed document: the fourth block, which was
\* not editing, is, and a second call takes it out of edit mode again.
C19_Witness ==
    /\ steps = 1
    /\ EditingAt(blocks) = {4}
    /\ ~IsEditing(SeedBlocks[4])
    /\ EditingAt(toggledBlocks(blocks, blocks[4].id)) = {}

(***************************************************************************)
(* C20.  updateBlockContent is idempotent: a second call with the same id  *)
(* and content leaves the document the first call made as it is.           *)
(***************************************************************************)
C20_UpdateIdempotent ==
    [][\A id \in IdInputs, c \in Contents :
          updateBlockContent(id, c) => updatedBlocks(blocks', id, c) = blocks']_vars

\* updateBlockContent(E.id, "Hello") on the seed document, after which the
\* same call changes nothing.
C20_Witness ==
    /\ steps = 1
    /\ blocks[5].content = "Hello"
    /\ blocks # SeedBlocks
    /\ updatedBlocks(blocks, blocks[5].id, "Hello") = blocks

(***************************************************************************)
(* C21.  drop(index) with index equal to draggedIndex cancels the drag     *)
(* without reordering: the document after the drop is the document before  *)
(* it, the same blocks in the same order, and no drag is in progress.      *)
(***************************************************************************)
C21_DropOnSelfCancels ==
    [][\A index \in Indices :
          (draggedItemIndex = index /\ handleDrop(index)) =>
              /\ blocks' = blocks
              /\ draggedItemIndex' = null
              /\ draggedBlockId' = null
              /\ isDragging' = FALSE
              /\ dragOverIndex' = null]_vars

\* toggleEditMode(B.id); beginDrag(2); dragOver(3); drop(2) on the seed
\* document: the blocks are in the seed order, the second still editing,
\* and nothing of the drag is left.
C21_Witness ==
    /\ steps = 4
    /\ IdSeq(blocks) = <<1, 2, 3, 4, 5, 6>>
    /\ EditingAt(blocks) = {2}
    /\ draggedItemIndex = null
    /\ draggedBlockId = null
    /\ dragOverIndex = null
    /\ ~isDragging

(***************************************************************************)
(* C22.  No operation removes a block: the document is never empty, no     *)
(* step makes it shorter, and every block of the document is in it after   *)
(* the step under the same id with the same type.                          *)
(***************************************************************************)
\* Every block of list a is in list b, under its id and with its type.
KeepsBlocks(a, b) ==
    \A k \in DOMAIN a : \E m \in DOMAIN b :
        b[m].id = a[k].id /\ b[m].type = a[k].type

C22_NoBlockRemoved ==
    [][/\ Len(blocks) > 0
       /\ Len(blocks') >= Len(blocks)
       /\ blocks' # blocks => KeepsBlocks(blocks, blocks')]_vars

\* addBlock('image'); beginDrag(6); drop(0); toggleEditMode(C.id) on the
\* seed document: seven blocks, the new image first, the six seed blocks
\* after it with the types they began with.
C22_Witness ==
    /\ steps = 4
    /\ IdSeq(blocks) = <<7, 1, 2, 3, 4, 5, 6>>
    /\ blocks[1].type = "image"
    /\ EditingAt(blocks) = {4}
    /\ \A k \in DOMAIN SeedBlocks : blocks[k + 1].type = SeedBlocks[k].type

(***************************************************************************)
(* C23.  In every reachable state the dragging flag is true exactly when   *)
(* draggedIndex is set and exactly when the stored dragged block id is     *)
(* set, and a stored id is the id of the block now at draggedIndex, also   *)
(* when blocks are added or edited during the drag.                        *)
(***************************************************************************)
C23_DragBookkeepingConsistent ==
    /\ isDragging <=> draggedItemIndex # null
    /\ isDragging <=> draggedBlockId # null
    /\ draggedBlockId # null =>
          /\ draggedItemIndex + 1 \in DOMAIN blocks
          /\ blocks[draggedItemIndex + 1].id = draggedBlockId

\* beginDrag(2); addBlock('text'); toggleEditMode(C.id);
\* updateBlockContent(C.id, "Hello") on the seed document: the drag of the
\* third block is still in progress, on a block that was put in edit mode
\* and edited in a document that got longer.
C23_Witness ==
    /\ steps = 4
    /\ isDragging
    /\ draggedItemIndex = 2
    /\ draggedBlockId = 3
    /\ Len(blocks) = Len(SeedBlocks) + 1
    /\ IsEditing(blocks[3])
    /\ blocks[3].content = "Hello"

(***************************************************************************)
(* C24.  In every reachable state with a drag in progress dragOverIndex is *)
(* none or differs from draggedIndex.  handleDragStart leaves              *)
(* dragOverIndex as it finds it, so a drag that begins on the block the    *)
(* last drag was over has both on the same index.                          *)
(***************************************************************************)
C24_TargetIsNotDragged ==
    draggedItemIndex # null =>
        (dragOverIndex = null \/ dragOverIndex # draggedItemIndex)

=============================================================================
